---- MODULE Spec2Model ----
(***************************************************************************)
(* State-machine model of MovementSequenceBuilder                          *)
(* (src/movement_sequence_builder.py).                                     *)
(*                                                                         *)
(* Python floats are modelled as exact rationals <<n, d>> (d > 0, reduced);*)
(* the empty tuple <<>> stands for None / an argument that is not passed.  *)
(* The DriveController is the environment: it records the calls it gets    *)
(* and decides, per dispatch, whether the call returns or raises.          *)
(***************************************************************************)
EXTENDS Integers, Sequences, FiniteSets, TLC

\* Longest sequence the operator is allowed to build in the model.
MaxMoves == 3
\* Longest sequence built from the wide input sets (specification SpecBuild).
MaxBuild == 2

----------------------------------------------------------------------------
\* Exact arithmetic standing for Python float arithmetic.

Abs(x) == IF x < 0 THEN -x ELSE x

RECURSIVE GCD(_, _)
GCD(a, b) == IF b = 0 THEN a ELSE GCD(b, a % b)

Rat(n, d) ==
    LET s == IF d < 0 THEN -1 ELSE 1
        g == GCD(Abs(n), Abs(d))
    IN  <<(s * n) \div g, (s * d) \div g>>

RMul(a, b) == Rat(a[1] * b[1], a[2] * b[2])
RDiv(a, b) == Rat(a[1] * b[2], a[2] * b[1])
\* Sums and comparisons go through the common denominator, so that the
\* intermediate values stay small.
RAdd(a, b) ==
    LET g == GCD(a[2], b[2])
    IN  Rat(a[1] * (b[2] \div g) + b[1] * (a[2] \div g), (a[2] \div g) * b[2])
RLt(a, b) ==
    IF a[2] = b[2]
    THEN a[1] < b[1]
    ELSE LET g == GCD(a[2], b[2])
         IN  a[1] * (b[2] \div g) < b[1] * (a[2] \div g)
RLe(a, b) == ~RLt(b, a)
\* Python's min(a, b) / max(a, b): the first argument wins a tie.
RMin(a, b) == IF RLt(b, a) THEN b ELSE a
RMax(a, b) == IF RLt(a, b) THEN b ELSE a
RAbs(a) == <<Abs(a[1]), a[2]>>

ZERO == <<0, 1>>
ONE == <<1, 1>>
None == <<>>

----------------------------------------------------------------------------
\* Class constants.

INCHES_TO_METERS == Rat(254, 10000)
MAX_LINEAR_VELOCITY_MS == Rat(1, 1)
MAX_ANGULAR_VELOCITY_DEG_S == Rat(360, 1)
MIN_SPEED_FACTOR == Rat(1, 10)
MAX_EXECUTION_TIME == Rat(60, 1)
TIME_SAFETY_MARGIN == Rat(12, 10)
\* turn_radius=0.3 passed to drive.left / drive.right
TURN_RADIUS == Rat(3, 10)

\* The index a zero-based enumerate would give.
enumerate_from_zero(consumed) == consumed

\* for i, movement in enumerate(self.movements, 1): the index i of the item
\* the loop holds after it has consumed `consumed` earlier items.
enumerate_index(consumed) == consumed + 1

----------------------------------------------------------------------------
\* Unit conversion and timing calculator.

\* A conversion that leaves the inches as they are.
inches_unconverted(inches) == inches

inches_to_meters(inches) == RMul(inches, INCHES_TO_METERS)

\* A linear time without the final clamp to MAX_EXECUTION_TIME.
calculate_linear_time_uncapped(distance_inches, speed_factor) ==
    LET sf == RMax(MIN_SPEED_FACTOR, RMin(ONE, speed_factor))
        velocity_ms == RMul(sf, MAX_LINEAR_VELOCITY_MS)
        distance_meters == inches_to_meters(distance_inches)
        time_base == IF RLt(ZERO, velocity_ms)
                     THEN RDiv(distance_meters, velocity_ms)
                     ELSE ZERO
    IN  RMul(time_base, TIME_SAFETY_MARGIN)

\* A rotational time computed from the signed angle.
calculate_rotational_time_signed(angle_degrees, speed_factor) ==
    LET sf == RMax(MIN_SPEED_FACTOR, RMin(ONE, speed_factor))
        angular_velocity_deg_s == RMul(sf, MAX_ANGULAR_VELOCITY_DEG_S)
        time_base == IF RLt(ZERO, angular_velocity_deg_s)
                     THEN RDiv(angle_degrees, angular_velocity_deg_s)
                     ELSE ZERO
        time_with_margin == RMul(time_base, TIME_SAFETY_MARGIN)
    IN  RMin(time_with_margin, MAX_EXECUTION_TIME)

calculate_linear_time(distance_inches, speed_factor) ==
    LET sf == RMax(MIN_SPEED_FACTOR, RMin(ONE, speed_factor))
        velocity_ms == RMul(sf, MAX_LINEAR_VELOCITY_MS)
        distance_meters == inches_to_meters(distance_inches)
        time_base == IF RLt(ZERO, velocity_ms)
                     THEN RDiv(distance_meters, velocity_ms)
                     ELSE ZERO
        time_with_margin == RMul(time_base, TIME_SAFETY_MARGIN)
    IN  RMin(time_with_margin, MAX_EXECUTION_TIME)

calculate_rotational_time(angle_degrees, speed_factor) ==
    LET sf == RMax(MIN_SPEED_FACTOR, RMin(ONE, speed_factor))
        angle_abs == RAbs(angle_degrees)
        angular_velocity_deg_s == RMul(sf, MAX_ANGULAR_VELOCITY_DEG_S)
        time_base == IF RLt(ZERO, angular_velocity_deg_s)
                     THEN RDiv(angle_abs, angular_velocity_deg_s)
                     ELSE ZERO
        time_with_margin == RMul(time_base, TIME_SAFETY_MARGIN)
    IN  RMin(time_with_margin, MAX_EXECUTION_TIME)

----------------------------------------------------------------------------
\* What the operator may type (after .strip().lower() where the code does it).
\* Numeric text is given as numerator/denominator, <<>> is text float() rejects.

DirectionInputs ==
    {"1", "forward", "f", "2", "backward", "b", "back", "3", "left", "l",
     "4", "right", "r", "5", "rotate", "rot", "up"}
SpeedInputs == {<<>>, <<5, 1>>, <<100, 2>>}
DistanceInputs == {<<>>, <<0, 1>>, <<-90, 1>>, <<24, 2>>}
YesNoInputs == {"yes", "y", "no", "n", "maybe"}
KeyInputs == {" ", "q"}
\* Wider input sets, with the ends of the accepted ranges and their neighbours.
WideSpeedInputs ==
    {<<>>, <<-50, 1>>, <<0, 1>>, <<5, 1>>, <<999, 100>>, <<10, 1>>,
     <<100, 2>>, <<100, 1>>, <<1001, 10>>, <<250, 1>>}
WideDistanceInputs ==
    {<<>>, <<0, 1>>, <<0, 5>>, <<-90, 1>>, <<-1, 1>>, <<1, 2>>, <<24, 2>>}

\* float(text)
ParseFloat(text) == Rat(text[1], text[2])

\* The if/elif chain of get_direction; "" when the choice is invalid.
DirectionOf(choice) ==
    IF choice \in {"1", "forward", "f"} THEN "forward"
    ELSE IF choice \in {"2", "backward", "b", "back"} THEN "backward"
    ELSE IF choice \in {"3", "left", "l"} THEN "left"
    ELSE IF choice \in {"4", "right", "r"} THEN "right"
    ELSE IF choice \in {"5", "rotate", "rot"} THEN "rotate"
    ELSE ""

----------------------------------------------------------------------------
VARIABLES
    movements,          \* self.movements
    keep_running,       \* self.keep_running
    sequence_executed,  \* self.sequence_executed
    pc,                 \* the statement the program is at
    stack,              \* return addresses of the active calls
    exc,                \* the exception being handled or propagated
    direction,          \* add_movement local
    speed,              \* add_movement local
    distance,           \* add_movement local
    it,                 \* items the for loop of execute_sequence has consumed
    calls,              \* calls the DriveController received since execute_sequence was entered
    inFlight,           \* drive calls entered and not yet returned
    dispatched,         \* positions of the movements dispatched by the running execute_sequence
    durations,          \* time_to_take computed for each of those dispatches
    failedAt,           \* position of the movement whose dispatch raised (0: none)
    reported,           \* index printed by "Error executing movement #i" (0: none)
    entry,              \* <<self.movements>> as it was when execute_sequence was entered
    returned,           \* the last execute_sequence call returned, and the drive got no call since
    prev,               \* the execute_sequence call that returned before the last one entered
    outcome,            \* how the last call made by the caller of the object ended
    waited,             \* seconds execute has slept since the last drive call returned
    message,            \* what execute_sequence printed on entry ("" : nothing yet)
    added,              \* what the last add_movement displayed and returned
    total_time,         \* display_sequence local
    calc,               \* a call of the timing calculator: its arguments and result
    raised              \* the last exception raised in the call the caller made: where, and which

vars == <<movements, keep_running, sequence_executed, pc, stack, exc,
          direction, speed, distance, it, calls, inFlight, dispatched,
          durations, failedAt, reported, entry, returned, prev, outcome,
          waited, message, added, total_time, calc, raised>>

fields == <<movements, keep_running, sequence_executed>>
addLocals == <<direction, speed, distance>>
execLog == <<calls, dispatched, durations, failedAt, reported>>
history == <<entry, returned, prev>>
notes == <<waited, message, added, total_time, calc, raised>>

NoRaise == [at |-> "", e |-> ""]

NoRun == [valid |-> FALSE, failedAt |-> 0, calls |-> <<>>]

StopCall ==
    [cmd |-> "stop", speed_factor |-> None, distance |-> None,
     turn_radius |-> None, angle |-> None, time_to_take |-> None]

Last(s) == s[Len(s)]

\* Statements of execute_sequence and execute_movement.
ExecPcs == {"execute_sequence", "execute_movement", "drive_call", "em_sleep",
            "em_except", "es_except", "es_sleep", "es_stop"}
\* Statements inside the try block of run.
RunTryPcs == {"run_wait_key", "run_executed", "run_again", "run_spin"}
InputPcs == {"get_direction", "get_speed", "get_distance", "bs_ask",
             "run_wait_key", "run_again"}

InRunTry ==
    \/ pc \in RunTryPcs
    \/ \E j \in 1..Len(stack) : stack[j] \in RunTryPcs

----------------------------------------------------------------------------
InitBuilder ==
    /\ movements = <<>>
    /\ keep_running = TRUE
    /\ sequence_executed = FALSE
    /\ pc = "idle"
    /\ stack = <<>>
    /\ exc = "none"
    /\ direction = ""
    /\ speed = None
    /\ distance = None
    /\ it = 0
    /\ calls = <<>>
    /\ inFlight = 0
    /\ dispatched = <<>>
    /\ durations = <<>>
    /\ failedAt = 0
    /\ reported = 0
    /\ entry = <<>>
    /\ returned = FALSE
    /\ prev = NoRun
    /\ outcome = [op |-> "none", how |-> "returned"]
    /\ waited = ZERO
    /\ message = ""
    /\ added = None
    /\ total_time = None
    /\ raised = NoRaise

Init ==
    /\ InitBuilder
    /\ calc = None

\* return from the active call
Return ==
    /\ pc' = Head(stack)
    /\ stack' = Tail(stack)
    /\ outcome' = IF Head(stack) = "idle"
                  THEN [outcome EXCEPT !.how = "returned"]
                  ELSE outcome

\* The part of the program the current statement belongs to.
RaisePlace ==
    IF pc \in RunTryPcs THEN "waiting"
    ELSE IF InRunTry THEN "executing"
    ELSE IF pc = "run_except" THEN "handler"
    ELSE IF pc = "run_finally" THEN "finally"
    ELSE "outside"

\* An exception e leaves the current statement with no handler around it in
\* the current function: if run's try block is active and one of its except
\* clauses matches e (`handled`), that clause runs; if the try block or one
\* of its except clauses is active otherwise, the finally clause runs with e
\* pending; else e reaches the caller of the object.
Raise(e, handled) ==
    /\ raised' = [at |-> RaisePlace, e |-> e]
    /\ IF InRunTry /\ e \in handled
       THEN /\ pc' = "run_except"
            /\ stack' = <<"idle">>
            /\ exc' = e
            /\ outcome' = outcome
       ELSE IF InRunTry \/ pc = "run_except"
       THEN /\ pc' = "run_finally"
            /\ stack' = <<"idle">>
            /\ exc' = e
            /\ outcome' = outcome
       ELSE /\ pc' = "idle"
            /\ stack' = <<>>
            /\ exc' = "none"
            /\ outcome' = [outcome EXCEPT !.how = e]
    /\ direction' = ""
    /\ speed' = None
    /\ distance' = None
    /\ it' = 0
    /\ inFlight' = 0

\* A try block with `except Exception` alone.
PropagateExceptionOnly(e) == Raise(e, {"EOFError"})

\* except KeyboardInterrupt, except Exception
Propagate(e) == Raise(e, {"KeyboardInterrupt", "EOFError"})

----------------------------------------------------------------------------
\* Calls made by the owner of the object while no call is active.

ForgetRuns ==
    /\ calls' = <<>>
    /\ dispatched' = <<>>
    /\ durations' = <<>>
    /\ failedAt' = 0
    /\ reported' = 0
    /\ entry' = <<>>
    /\ returned' = FALSE
    /\ prev' = NoRun
    /\ waited' = ZERO
    /\ message' = ""
    /\ added' = None
    /\ total_time' = None
    /\ raised' = NoRaise

\* The owner calls add_movement; `limit` bounds the length of the sequence.
AddCall(limit) ==
    /\ pc = "idle"
    /\ Len(movements) < limit
    /\ pc' = "get_direction"
    /\ stack' = <<"idle">>
    /\ outcome' = [op |-> "add_movement", how |-> "running"]
    /\ ForgetRuns
    /\ UNCHANGED <<fields, exc, addLocals, it, inFlight, calc>>

CallAddMovement == AddCall(MaxMoves)

CallAddMovementWide == AddCall(MaxBuild)

\* clear_sequence; `rest` is what it leaves in self.movements.
Clear(rest) ==
    /\ pc = "idle"
    /\ movements' = rest
    /\ outcome' = [op |-> "clear_sequence", how |-> "returned"]
    /\ ForgetRuns
    /\ UNCHANGED <<keep_running, sequence_executed, pc, stack, exc,
                   addLocals, it, inFlight, calc>>

\* A clear that drops only the last movement.
clear_sequence_last ==
    Clear(SubSeq(movements, 1, Len(movements) - 1))

clear_sequence == Clear(<<>>)

CallExecuteSequence ==
    /\ pc = "idle"
    /\ pc' = "execute_sequence"
    /\ stack' = <<"idle">>
    /\ outcome' = [op |-> "execute_sequence", how |-> "running"]
    /\ added' = None
    /\ UNCHANGED <<fields, exc, addLocals, it, inFlight, execLog, history,
                   waited, message, total_time, calc>>
    /\ raised' = NoRaise

CallRun ==
    /\ pc = "idle"
    /\ Len(movements) < MaxMoves
    /\ pc' = "build_sequence"
    /\ stack' = <<"run_display", "idle">>
    /\ outcome' = [op |-> "run", how |-> "running"]
    /\ ForgetRuns
    /\ UNCHANGED <<fields, exc, addLocals, it, inFlight, calc>>

----------------------------------------------------------------------------
\* add_movement and its prompts.

get_direction ==
    /\ pc = "get_direction"
    /\ \E choice \in DirectionInputs :
          IF DirectionOf(choice) # ""
          THEN /\ direction' = DirectionOf(choice)
               /\ pc' = "get_speed"
          ELSE UNCHANGED <<direction, pc>>
    /\ UNCHANGED <<fields, stack, exc, speed, distance, it, inFlight,
                   execLog, history, outcome, notes>>

\* A get_speed that accepts every number typed.
GetSpeedUnchecked(inputs) ==
    /\ pc = "get_speed"
    /\ \E speed_input \in inputs :
          IF speed_input = None
          THEN UNCHANGED <<speed, pc>>
          ELSE /\ speed' = RDiv(ParseFloat(speed_input), Rat(100, 1))
               /\ pc' = "get_distance"
    /\ UNCHANGED <<fields, stack, exc, direction, distance, it, inFlight,
                   execLog, history, outcome, notes>>

\* get_speed, the operator typing one of `inputs` at each prompt.
GetSpeed(inputs) ==
    /\ pc = "get_speed"
    /\ \E speed_input \in inputs :
          IF speed_input = None
          THEN UNCHANGED <<speed, pc>>
          ELSE LET speed_percent == ParseFloat(speed_input) IN
               IF /\ RLe(RMul(MIN_SPEED_FACTOR, Rat(100, 1)), speed_percent)
                  /\ RLe(speed_percent, Rat(100, 1))
               THEN /\ speed' = RDiv(speed_percent, Rat(100, 1))
                    /\ pc' = "get_distance"
               ELSE UNCHANGED <<speed, pc>>
    /\ UNCHANGED <<fields, stack, exc, direction, distance, it, inFlight,
                   execLog, history, outcome, notes>>

get_speed == GetSpeed(SpeedInputs)

get_speed_wide == GetSpeed(WideSpeedInputs)

\* get_distance, the operator typing one of `inputs` at each prompt.
GetDistance(inputs) ==
    /\ pc = "get_distance"
    /\ \E distance_input \in inputs :
          IF distance_input = None
          THEN UNCHANGED <<distance, pc>>
          ELSE LET d == ParseFloat(distance_input) IN
               IF direction = "rotate"
               THEN IF d # ZERO
                    THEN /\ distance' = d
                         /\ pc' = "add_movement"
                    ELSE UNCHANGED <<distance, pc>>
               ELSE IF RLt(ZERO, d)
                    THEN /\ distance' = d
                         /\ pc' = "add_movement"
                    ELSE UNCHANGED <<distance, pc>>
    /\ UNCHANGED <<fields, stack, exc, direction, speed, it, inFlight,
                   execLog, history, outcome, notes>>

get_distance == GetDistance(DistanceInputs)

get_distance_wide == GetDistance(WideDistanceInputs)

\* A store that puts the new movement first.
StoreMovementFirst(sequence, movement) == <<movement>> \o sequence

\* self.movements.append(movement)
StoreMovement(sequence, movement) == Append(sequence, movement)

\* The rest of add_movement: the movement is stored, the confirmation shows
\* it with the index len(self.movements), and the method returns None.
add_movement ==
    /\ pc = "add_movement"
    /\ movements' = StoreMovement(movements,
                                  [direction |-> direction, speed |-> speed,
                                   distance |-> distance])
    /\ added' = <<Len(movements'), None, movements>>
    /\ direction' = ""
    /\ speed' = None
    /\ distance' = None
    /\ Return
    /\ UNCHANGED <<keep_running, sequence_executed, exc, it, inFlight,
                   execLog, history, waited, message, total_time, calc, raised>>

\* A building loop that asks whether to go on before it adds anything.
build_sequence_ask_first ==
    /\ pc = "build_sequence"
    /\ pc' = "bs_ask"
    /\ UNCHANGED <<fields, stack, exc, addLocals, it, inFlight, execLog,
                   history, outcome, notes>>

build_sequence ==
    /\ pc = "build_sequence"
    /\ pc' = "get_direction"
    /\ stack' = <<"bs_ask">> \o stack
    /\ UNCHANGED <<fields, exc, addLocals, it, inFlight, execLog, history,
                   outcome, notes>>

bs_ask ==
    /\ pc = "bs_ask"
    /\ \E response \in YesNoInputs :
          IF response \in {"yes", "y"}
          THEN /\ Len(movements) < MaxMoves
               /\ pc' = "build_sequence"
               /\ UNCHANGED <<stack, outcome>>
          ELSE IF response \in {"no", "n"}
          THEN Return
          ELSE UNCHANGED <<pc, stack, outcome>>
    /\ UNCHANGED <<fields, exc, addLocals, it, inFlight, execLog, history,
                   notes>>

----------------------------------------------------------------------------
\* display_sequence

CallDisplaySequence ==
    /\ pc = "idle"
    /\ pc' = "display_sequence"
    /\ stack' = <<"idle">>
    /\ outcome' = [op |-> "display_sequence", how |-> "running"]
    /\ added' = None
    /\ UNCHANGED <<fields, exc, addLocals, it, inFlight, execLog, history,
                   waited, message, total_time, calc>>
    /\ raised' = NoRaise

\* An estimate that takes every movement for a linear one.
DisplayTimeLinear(movement) ==
    calculate_linear_time(movement.distance, movement.speed)

\* The term display_sequence adds to total_time for one movement.
DisplayTime(movement) ==
    IF movement.direction = "rotate"
    THEN calculate_rotational_time(movement.distance, movement.speed)
    ELSE calculate_linear_time(movement.distance, movement.speed)

\* The for loop of display_sequence from item i on, total so far `total`.
RECURSIVE TotalFrom(_, _, _)
TotalFrom(sequence, i, total) ==
    IF i > Len(sequence)
    THEN total
    ELSE TotalFrom(sequence, i + 1, RAdd(total, DisplayTime(sequence[i])))

\* display_sequence up to the end of its loop.
display_sequence ==
    /\ pc = "display_sequence"
    /\ IF movements = <<>>
       THEN /\ Return
            /\ UNCHANGED total_time
       ELSE /\ total_time' = TotalFrom(movements, 1, ZERO)
            /\ pc' = "ds_print"
            /\ UNCHANGED <<stack, outcome>>
    /\ UNCHANGED <<fields, exc, addLocals, it, inFlight, execLog, history,
                   waited, message, added, calc, raised>>

\* The summary display_sequence prints, and its return.
ds_print ==
    /\ pc = "ds_print"
    /\ total_time' = None
    /\ Return
    /\ UNCHANGED <<fields, exc, addLocals, it, inFlight, execLog, history,
                   waited, message, added, calc, raised>>

----------------------------------------------------------------------------
\* execute_sequence and execute_movement.

\* A stale duration: the one computed for the first dispatch of the run.
StaleTimeToTake(movement) ==
    IF durations # <<>>
    THEN durations[1]
    ELSE IF movement.direction = "rotate"
         THEN calculate_rotational_time(movement.distance, movement.speed)
         ELSE calculate_linear_time(movement.distance, movement.speed)

\* time_to_take as execute_movement computes it in the branch it takes.
TimeToTake(movement) ==
    IF movement.direction = "rotate"
    THEN calculate_rotational_time(movement.distance, movement.speed)
    ELSE calculate_linear_time(movement.distance, movement.speed)

\* The call execute_movement makes on self.drive, with the keyword
\* arguments it passes.
DriveCall(movement, time_to_take) ==
    IF movement.direction = "rotate"
    THEN [cmd |-> "rotate", speed_factor |-> movement.speed,
          distance |-> None, turn_radius |-> None,
          angle |-> movement.distance, time_to_take |-> time_to_take]
    ELSE [cmd |-> movement.direction, speed_factor |-> movement.speed,
          distance |-> inches_to_meters(movement.distance),
          turn_radius |-> IF movement.direction \in {"left", "right"}
                          THEN TURN_RADIUS ELSE None,
          angle |-> None, time_to_take |-> None]

\* Entry of execute_sequence; `first` is the number of items the loop skips.
EnterSequence(first) ==
    /\ pc = "execute_sequence"
    /\ calls' = <<>>
    /\ dispatched' = <<>>
    /\ durations' = <<>>
    /\ failedAt' = 0
    /\ reported' = 0
    /\ entry' = <<movements>>
    /\ prev' = IF returned
               THEN [valid |-> TRUE, failedAt |-> failedAt, calls |-> calls]
               ELSE NoRun
    /\ IF movements = <<>>
       THEN /\ it' = 0
            /\ returned' = TRUE
            /\ Return
       ELSE /\ it' = first
            /\ returned' = FALSE
            /\ pc' = "execute_movement"
            /\ UNCHANGED <<stack, outcome>>
    /\ waited' = ZERO
    /\ message' = IF movements = <<>> THEN "no_movements" ELSE "executing"
    /\ UNCHANGED <<fields, exc, addLocals, inFlight, added, total_time, calc, raised>>

\* A loop that resumes at the movement that failed in the previous run.
execute_sequence_resuming ==
    EnterSequence(IF failedAt > 0 /\ failedAt <= Len(movements)
                  THEN failedAt - 1 ELSE 0)

execute_sequence == EnterSequence(0)

\* execute_movement up to the call on self.drive; `rest` is self.movements
\* as the step leaves it.
Dispatch(rest) ==
    /\ pc = "execute_movement"
    /\ LET movement == movements[it + 1]
           time_to_take == TimeToTake(movement)
       IN  /\ durations' = Append(durations, time_to_take)
           /\ calls' = Append(calls, DriveCall(movement, time_to_take))
    /\ dispatched' = Append(dispatched, it + 1)
    /\ inFlight' = inFlight + 1
    /\ movements' = rest
    /\ waited' = ZERO
    /\ pc' = "drive_call"
    /\ UNCHANGED <<keep_running, sequence_executed, stack, exc, addLocals,
                   it, failedAt, reported, history, outcome, message,
                   added, total_time, calc, raised>>

\* A dispatch that rewrites the stored movement it has just run.
execute_movement_rewriting ==
    Dispatch([movements EXCEPT ![it + 1].distance = ZERO])

execute_movement == Dispatch(movements)

\* The DriveController call returns.
drive_returns ==
    /\ pc = "drive_call"
    /\ inFlight' = inFlight - 1
    /\ pc' = "em_sleep"
    /\ UNCHANGED <<fields, stack, exc, addLocals, it, calls, dispatched,
                   durations, failedAt, reported, history, outcome, notes>>

\* The DriveController call raises an Exception.
drive_raises ==
    /\ pc = "drive_call"
    /\ inFlight' = inFlight - 1
    /\ failedAt' = it + 1
    /\ exc' = "DispatchError"
    /\ pc' = "em_except"
    /\ UNCHANGED <<fields, stack, addLocals, it, calls, dispatched,
                   durations, reported, history, outcome, notes>>

\* The sleep of execute_movement, then "Movement #i completed"; `seconds` is
\* how long it sleeps.
MovementSleep(seconds) ==
    /\ pc = "em_sleep"
    /\ waited' = RAdd(waited, seconds)
    /\ pc' = "es_sleep"
    /\ UNCHANGED <<fields, stack, exc, addLocals, it, inFlight, execLog,
                   history, outcome, message, added, total_time, calc, raised>>

\* An execute_movement that returns as soon as the drive call has returned.
em_sleep_none == MovementSleep(ZERO)

\* sleep(0.5)
em_sleep == MovementSleep(Rat(5, 10))

\* The except block of execute_movement; `sent` is what it sends the drive.
MovementHandler(sent) ==
    /\ pc = "em_except"
    /\ calls' = calls \o sent
    /\ pc' = "es_except"
    /\ UNCHANGED <<fields, stack, exc, addLocals, it, inFlight, dispatched,
                   durations, failedAt, reported, history, outcome, notes>>

\* A handler that re-raises without stopping the drive.
em_except_no_stop == MovementHandler(<<>>)

em_except == MovementHandler(<<StopCall>>)

\* The except block of execute_sequence; `target` is where it goes on.
SequenceHandler(target) ==
    /\ pc = "es_except"
    /\ reported' = enumerate_index(it)
    /\ calls' = Append(calls, StopCall)
    /\ exc' = "none"
    /\ pc' = target
    /\ UNCHANGED <<fields, stack, addLocals, it, inFlight, dispatched,
                   durations, failedAt, history, outcome, notes>>

\* A handler that goes on with the next movement instead of breaking.
es_except_continue == SequenceHandler("es_sleep")

es_except == SequenceHandler("es_stop")

\* sleep(0.5) of execute_sequence and the next iteration of its for loop;
\* `step` is the number of items the loop advances by.
NextIteration(step) ==
    /\ pc = "es_sleep"
    /\ IF it + step < Len(movements)
       THEN /\ it' = it + step
            /\ pc' = "execute_movement"
       ELSE /\ it' = it
            /\ pc' = "es_stop"
    /\ waited' = RAdd(waited, Rat(5, 10))
    /\ UNCHANGED <<fields, stack, exc, addLocals, inFlight, execLog,
                   history, outcome, message, added, total_time, calc, raised>>

\* A loop that dispatches the movement it has just run once more before
\* going on (it advances only after a second pass).
es_sleep_repeat ==
    NextIteration(IF Len(dispatched) < 2 * (it + 1) THEN 0 ELSE 1)

es_sleep == NextIteration(1)

\* The end of execute_sequence; `sent` is what it sends the drive.
Finish(sent) ==
    /\ pc = "es_stop"
    /\ calls' = calls \o sent
    /\ returned' = TRUE
    /\ it' = 0
    /\ Return
    /\ UNCHANGED <<fields, exc, addLocals, inFlight, dispatched, durations,
                   failedAt, reported, entry, prev, notes>>

\* A return that leaves the drive as the last movement left it.
es_stop_missing == Finish(<<>>)

es_stop == Finish(<<StopCall>>)

----------------------------------------------------------------------------
\* run

\* self.display_sequence()
run_display ==
    /\ pc = "run_display"
    /\ pc' = "display_sequence"
    /\ stack' = <<"run_check">> \o stack
    /\ added' = None
    /\ UNCHANGED <<fields, exc, addLocals, it, inFlight, execLog, history,
                   outcome, waited, message, total_time, calc, raised>>

run_check ==
    /\ pc = "run_check"
    /\ IF movements = <<>>
       THEN /\ Return
            /\ UNCHANGED <<keep_running, sequence_executed>>
       ELSE /\ keep_running' = TRUE
            /\ sequence_executed' = FALSE
            /\ pc' = "run_wait_key"
            /\ UNCHANGED <<stack, outcome>>
    /\ UNCHANGED <<movements, exc, addLocals, it, inFlight, execLog, history,
                   notes>>

run_wait_key ==
    /\ pc = "run_wait_key"
    /\ \E temp \in KeyInputs :
          IF temp = " "
          THEN /\ pc' = "execute_sequence"
               /\ stack' = <<"run_executed">> \o stack
          ELSE /\ pc' = "run_spin"
               /\ stack' = stack
    /\ UNCHANGED <<fields, exc, addLocals, it, inFlight, execLog, history,
                   outcome, notes>>

run_executed ==
    /\ pc = "run_executed"
    /\ sequence_executed' = TRUE
    /\ pc' = "run_again"
    /\ UNCHANGED <<movements, keep_running, stack, exc, addLocals, it,
                   inFlight, execLog, history, outcome, notes>>

run_again ==
    /\ pc = "run_again"
    /\ IF ~keep_running
       THEN /\ pc' = "run_spin"
            /\ UNCHANGED <<stack, keep_running>>
       ELSE \E response \in YesNoInputs :
              IF response \in {"yes", "y"}
              THEN /\ pc' = "execute_sequence"
                   /\ stack' = <<"run_again">> \o stack
                   /\ UNCHANGED keep_running
              ELSE IF response \in {"no", "n"}
              THEN /\ keep_running' = FALSE
                   /\ pc' = "run_spin"
                   /\ UNCHANGED stack
              ELSE UNCHANGED <<pc, stack, keep_running>>
    /\ UNCHANGED <<movements, sequence_executed, exc, addLocals, it,
                   inFlight, execLog, history, outcome, notes>>

\* while self.keep_running: sleep(0.1)
run_spin ==
    /\ pc = "run_spin"
    /\ pc' = IF keep_running THEN "run_spin" ELSE "run_finally"
    /\ UNCHANGED <<fields, stack, exc, addLocals, it, inFlight, execLog,
                   history, outcome, notes>>

\* except KeyboardInterrupt / except Exception
run_except ==
    /\ pc = "run_except"
    /\ exc' = "none"
    /\ pc' = "run_finally"
    /\ UNCHANGED <<fields, stack, addLocals, it, inFlight, execLog,
                   history, outcome, notes>>

\* finally: self.drive.stop()
run_finally ==
    /\ pc = "run_finally"
    /\ calls' = Append(calls, StopCall)
    /\ pc' = "idle"
    /\ stack' = <<>>
    /\ exc' = "none"
    /\ outcome' = [outcome EXCEPT !.how = IF exc = "none" THEN "returned" ELSE exc]
    /\ returned' = FALSE
    /\ UNCHANGED <<fields, addLocals, it, inFlight, dispatched, durations,
                   failedAt, reported, entry, prev, notes>>

----------------------------------------------------------------------------
\* The environment.

\* Ctrl-C: KeyboardInterrupt is raised at the statement the program is at.
Interrupt ==
    /\ pc # "idle"
    /\ Propagate("KeyboardInterrupt")
    /\ total_time' = None
    /\ UNCHANGED <<fields, execLog, history, waited, message, added, calc>>

\* input() raises EOFError.
InputEOF ==
    /\ pc \in InputPcs
    /\ Propagate("EOFError")
    /\ total_time' = None
    /\ UNCHANGED <<fields, execLog, history, waited, message, added, calc>>

Next ==
    \/ CallAddMovement
    \/ clear_sequence
    \/ CallExecuteSequence
    \/ CallRun
    \/ display_sequence
    \/ ds_print
    \/ get_direction
    \/ get_speed
    \/ get_distance
    \/ add_movement
    \/ build_sequence
    \/ bs_ask
    \/ execute_sequence
    \/ execute_movement
    \/ drive_returns
    \/ drive_raises
    \/ em_sleep
    \/ em_except
    \/ es_except
    \/ es_sleep
    \/ es_stop
    \/ run_display
    \/ run_check
    \/ run_wait_key
    \/ run_executed
    \/ run_again
    \/ run_spin
    \/ run_except
    \/ run_finally
    \/ Interrupt
    \/ InputEOF

Spec == Init /\ [][Next]_vars

\* Building, displaying and clearing only, with the wide input sets.
NextBuild ==
    \/ CallAddMovementWide
    \/ CallDisplaySequence
    \/ display_sequence
    \/ ds_print
    \/ get_direction
    \/ get_speed_wide
    \/ get_distance_wide
    \/ add_movement
    \/ clear_sequence
    \/ Interrupt
    \/ InputEOF

SpecBuild == Init /\ [][NextBuild]_vars

-----------------------------------------------------------------------------
\* The timing calculators on their own: calc holds one call, its arguments
\* drawn from the grids below, and the value it returned once it has run.

\* distance_inches / angle_degrees
MagnitudeGrid ==
    {<<-3600, 1>>, <<-200, 1>>, <<-90, 1>>, <<-12, 1>>, <<-1, 2>>, <<0, 1>>,
     <<1, 2>>, <<12, 1>>, <<90, 1>>, <<196, 1>>, <<197, 1>>, <<200, 1>>,
     <<1800, 1>>, <<1801, 1>>, <<2000, 1>>, <<3600, 1>>, <<20000, 1>>}
\* speed_factor
SpeedFactorGrid ==
    {<<-1, 2>>, <<0, 1>>, <<1, 20>>, <<1, 10>>, <<3, 10>>, <<1, 2>>,
     <<9, 10>>, <<1, 1>>, <<3, 2>>}

CalcInputs ==
    [fn : {"calculate_linear_time", "calculate_rotational_time", "rotate"},
     x : MagnitudeGrid, s : SpeedFactorGrid, out : {None}, sent : {<<>>}]

InitCalc ==
    /\ InitBuilder
    /\ calc \in CalcInputs

builderVars == <<movements, keep_running, sequence_executed, pc, stack, exc,
                 direction, speed, distance, it, calls, inFlight, dispatched,
                 durations, failedAt, reported, entry, returned, prev,
                 outcome, waited, message, added, total_time, raised>>

\* calculate_linear_time(x, s) is called and returns.
CalcLinear ==
    /\ calc.fn = "calculate_linear_time"
    /\ calc.out = None
    /\ calc' = [calc EXCEPT !.out = calculate_linear_time(calc.x, calc.s)]
    /\ UNCHANGED builderVars

\* calculate_rotational_time(x, s) is called and returns.
CalcRotational ==
    /\ calc.fn = "calculate_rotational_time"
    /\ calc.out = None
    /\ calc' = [calc EXCEPT !.out = calculate_rotational_time(calc.x, calc.s)]
    /\ UNCHANGED builderVars

\* The 'rotate' branch of execute_movement for a movement of angle x and
\* speed s: the duration is computed and drive.rotate is called with it.
CalcRotateBranch ==
    /\ calc.fn = "rotate"
    /\ calc.sent = <<>>
    /\ LET movement == [direction |-> "rotate", speed |-> calc.s,
                        distance |-> calc.x]
           time_to_take == TimeToTake(movement)
       IN  calc' = [calc EXCEPT !.out = time_to_take,
                                !.sent = <<DriveCall(movement, time_to_take)>>]
    /\ UNCHANGED builderVars

NextCalc ==
    \/ CalcLinear
    \/ CalcRotational
    \/ CalcRotateBranch

SpecCalc == InitCalc /\ [][NextCalc]_vars

----------------------------------------------------------------------------
\* Properties.

IsStop(c) == c.cmd = "stop"
IsDispatch(c) == c.cmd # "stop"
\* The movement commands among the calls the drive received, in order.
DispatchCalls == SelectSeq(calls, IsDispatch)
\* <<1, 2, ..., n>>
UpTo(n) == [j \in 1..n |-> j]
\* The last execute_sequence call returned after the dispatch of movement k raised.
ReturnedAfterFailure == returned /\ failedAt > 0

\* C1: fail-stop truncation. Once the dispatch of movement k has raised, the
\* movements dispatched by that execute_sequence call are exactly 1, 2, ..., k,
\* each once and in order: k is not retried and nothing after k is dispatched.
C1_FailStopTruncation ==
    failedAt > 0 =>
        /\ dispatched = UpTo(failedAt)
        /\ Len(DispatchCalls) = failedAt

\* Movement #2 of three failed and execute_sequence has returned.
C1_Witness ==
    ReturnedAfterFailure /\ failedAt = 2 /\ Len(movements) = 3

\* C2 as claimed: after a failed dispatch the drive receives exactly one
\* stop() before execute_sequence returns.
C2_ExactlyOneStop ==
    ReturnedAfterFailure => Len(SelectSeq(calls, IsStop)) = 1

\* C2 as amended: after a failed dispatch of movement k the drive receives
\* stop() next, and until execute_sequence returns it receives exactly three
\* stop() calls and nothing else.
C2_ThreeStopsAfterFailure ==
    /\ ReturnedAfterFailure =>
          /\ Len(calls) = failedAt + 3
          /\ \A j \in 1..failedAt : IsDispatch(calls[j])
          /\ \A j \in (failedAt + 1)..(failedAt + 3) : calls[j] = StopCall
    /\ (failedAt > 0 /\ pc \in {"es_except", "es_stop"}) =>
          /\ Len(calls) > failedAt
          /\ calls[failedAt + 1] = StopCall

\* Movement #1 failed and execute_sequence has returned.
C2_Witness ==
    ReturnedAfterFailure /\ failedAt = 1 /\ Len(calls) = 4

\* C3 as claimed: a KeyboardInterrupt raised at a statement of
\* execute_sequence or execute_movement leaves execute_sequence only after a
\* stop() call that it triggered.
C3_InterruptStopsBeforePropagating ==
    [][(/\ pc \in ExecPcs
        /\ \/ pc' = "run_except" /\ exc' = "KeyboardInterrupt"
           \/ pc' = "idle" /\ outcome'.how = "KeyboardInterrupt")
       => (/\ Len(calls') = Len(calls) + 1
           /\ Last(calls') = StopCall)]_vars

\* C4: when execute_sequence returns from a non-empty sequence, the last call
\* the drive received is stop().
C4_LastCallIsStop ==
    (returned /\ movements # <<>>) =>
        /\ calls # <<>>
        /\ Last(calls) = StopCall

\* A run of three movements without a failure has returned.
C4_Witness ==
    returned /\ failedAt = 0 /\ Len(dispatched) = 3

\* C5 as claimed: every dispatch carries the duration computed for its
\* movement as its time argument, with the direction, the stored speed factor
\* and the distance in meters or the signed angle.
C5_DispatchCarriesDuration ==
    (entry # <<>> /\ Len(DispatchCalls) = Len(dispatched)) =>
        \A j \in 1..Len(dispatched) :
            LET c == DispatchCalls[j]
                m == movements[dispatched[j]]
            IN  /\ c.cmd = m.direction
                /\ c.speed_factor = m.speed
                /\ c.time_to_take = durations[j]
                /\ IF m.direction = "rotate"
                   THEN c.angle = m.distance
                   ELSE c.distance = RMul(m.distance, Rat(254, 10000))

\* C6: while no dispatch has failed, the movements dispatched are 1, 2, ...
\* in order, a dispatch starts only when no drive call is in flight, and a
\* run that returns without failure has dispatched every movement once.
C6_OneDispatchPerMovementInOrder ==
    /\ inFlight \in {0, 1}
    /\ pc = "execute_movement" => inFlight = 0
    /\ pc = "drive_call" <=> inFlight = 1
    /\ failedAt = 0 => dispatched = UpTo(Len(dispatched))
    /\ (returned /\ failedAt = 0) =>
          /\ dispatched = UpTo(Len(movements))
          /\ Len(DispatchCalls) = Len(movements)
          /\ \A j \in 1..Len(movements) :
                DispatchCalls[j].cmd = movements[j].direction

\* A run of three movements has returned without a failure.
C6_Witness ==
    returned /\ failedAt = 0 /\ Len(movements) = 3 /\ Len(DispatchCalls) = 3

\* C7: the index execute_sequence reports for a failed dispatch is the
\* 1-based position of the movement whose dispatch raised.
C7_ReportedIndexIsPosition ==
    /\ reported > 0 => reported = failedAt
    /\ ReturnedAfterFailure => reported = failedAt

\* The failure of movement #3 has been reported.
C7_Witness ==
    ReturnedAfterFailure /\ reported = 3

\* C8: after a dispatch failure execute_sequence returns normally (the
\* dispatch error never leaves it), the sequence still holds every movement,
\* and the next execute_sequence starts again at movement #1.
C8_FailureReturnsAndRestarts ==
    /\ exc = "DispatchError" => pc \in {"em_except", "es_except"}
    /\ outcome.how # "DispatchError"
    /\ pc = "es_stop" => exc = "none"
    /\ ReturnedAfterFailure =>
          /\ entry = <<movements>>
          /\ Len(movements) >= failedAt
    /\ (prev.valid /\ prev.failedAt > 0 /\ dispatched # <<>>) =>
          dispatched[1] = 1

\* An execute_sequence that follows one that failed at movement #2 has
\* dispatched.
C8_Witness ==
    prev.valid /\ prev.failedAt = 2 /\ dispatched # <<>>

\* C9: from the entry of execute_sequence on, during the call and after it
\* (returned, failed or on the empty sequence), self.movements is the list
\* it was at entry.
C9_ExecutionKeepsSequence ==
    entry # <<>> => movements = entry[1]

\* A run that failed at its second movement has returned.
C9_Witness ==
    ReturnedAfterFailure /\ failedAt = 2 /\ Len(dispatched) = 2

\* The duration of a stored movement, computed from its fields.
FreshDuration(m) ==
    IF m.direction = "rotate"
    THEN calculate_rotational_time(m.distance, m.speed)
    ELSE calculate_linear_time(m.distance, m.speed)

\* C10: an execute_sequence that returns after an earlier one returned on
\* the same sequence, the drive failing at the same place, has sent the drive
\* the same calls; and whenever a drive call is made, every duration of the
\* run so far is the one computed from the stored movement it belongs to.
C10_ReplayRepeatsCalls ==
    /\ (returned /\ prev.valid /\ prev.failedAt = failedAt) =>
          calls = prev.calls
    /\ (pc = "drive_call" /\ entry # <<>>
           /\ Len(durations) = Len(dispatched)) =>
          \A j \in 1..Len(dispatched) :
              durations[j] = FreshDuration(movements[dispatched[j]])
    /\ \A j \in 1..Len(DispatchCalls) :
          DispatchCalls[j].cmd = "rotate" =>
              DispatchCalls[j].time_to_take = durations[j]

\* A replay of a sequence with a rotation has returned like the run before it.
C10_Witness ==
    /\ returned
    /\ prev.valid
    /\ prev.failedAt = failedAt
    /\ Len(dispatched) >= 2
    /\ \E j \in 1..Len(calls) : calls[j].cmd = "rotate"

\* C11 as claimed: when a dispatch starts after an earlier one of the same
\* run, execute has slept exactly 0.5 s since that earlier drive call returned.
C11_SettleIsHalfSecond ==
    (pc = "execute_movement" /\ dispatched # <<>>) => waited = Rat(1, 2)

\* C11 as amended: two sleeps of 0.5 s follow a dispatch that succeeds, one
\* in execute_movement and one in execute_sequence, so execute has slept
\* exactly 1.0 s when the next dispatch starts (and when the final stop() of a
\* run without failure is sent).
C11_SettleIsOneSecond ==
    /\ pc = "es_sleep" => waited = Rat(1, 2)
    /\ (pc = "execute_movement" /\ dispatched # <<>>) => waited = ONE
    /\ (pc = "es_stop" /\ failedAt = 0) => waited = ONE

\* The second dispatch of a run is about to start.
C11_Witness ==
    pc = "execute_movement" /\ Len(dispatched) = 1 /\ waited = ONE

\* C12: clear_sequence leaves the sequence empty, and execute_sequence on an
\* empty sequence prints that there are no movements and returns at once: the
\* drive gets no call (no dispatch, no stop) and nothing is raised.
C12_ClearEmptiesAndEmptyExecuteIsNoOp ==
    /\ (pc = "idle" /\ outcome.op = "clear_sequence") =>
          (movements = <<>> /\ outcome.how = "returned")
    /\ message = "no_movements" =>
          /\ movements = <<>>
          /\ returned
          /\ calls = <<>>
          /\ dispatched = <<>>
          /\ exc = "none"
          /\ inFlight = 0
          /\ pc \notin ExecPcs \ {"execute_sequence"}
    /\ (entry # <<>> /\ movements = <<>>) => message = "no_movements"
    /\ (pc = "idle" /\ outcome.op = "execute_sequence" /\ movements = <<>>) =>
          outcome.how \in {"returned", "KeyboardInterrupt"}

\* execute_sequence has returned from an empty sequence.
C12_Witness ==
    /\ pc = "idle"
    /\ outcome = [op |-> "execute_sequence", how |-> "returned"]
    /\ message = "no_movements"

\* A stored movement satisfies the constraints of the prompts.
StoredMovementOK(m) ==
    /\ RLe(Rat(1, 10), m.speed)
    /\ RLe(m.speed, Rat(1, 1))
    /\ IF m.direction = "rotate"
       THEN m.distance[1] # 0
       ELSE m.direction \in {"forward", "backward", "left", "right"}
            /\ m.distance[1] > 0

\* C13: every stored movement has a speed factor in [0.1, 1.0] and a
\* magnitude > 0 (linear) or # 0 (rotate), whatever was typed; and a prompt,
\* whether it accepts or rejects what was typed, leaves the sequence as it is.
C13_StoredMovementInvariant ==
    /\ [](\A j \in 1..Len(movements) : StoredMovementOK(movements[j]))
    /\ [][(pc \in {"get_direction", "get_speed", "get_distance"})
             => (movements' = movements)]_vars

\* A rotation by -1 degree at the lowest speed and a linear movement at the
\* highest speed are stored.
C13_Witness ==
    /\ \E j \in 1..Len(movements) :
          /\ movements[j].direction = "rotate"
          /\ movements[j].speed = Rat(1, 10)
          /\ movements[j].distance = <<-1, 1>>
    /\ \E j \in 1..Len(movements) :
          /\ movements[j].direction = "left"
          /\ movements[j].speed = Rat(1, 1)
          /\ movements[j].distance = <<1, 2>>

\* C14 as claimed: add_movement has appended one movement to the sequence it
\* found, left the earlier ones in place, and returned the 1-based position
\* of the new one.
C14_AddReturnsPosition ==
    added # <<>> =>
        /\ Len(movements) = Len(added[3]) + 1
        /\ SubSeq(movements, 1, Len(added[3])) = added[3]
        /\ added[2] = <<Len(movements)>>

\* C14 as amended: add_movement has appended one movement to the sequence it
\* found, left the earlier ones in place, shown the new one under its 1-based
\* position (the length after the append), and returned None.
C14_AddShowsPosition ==
    added # <<>> =>
        /\ Len(movements) = Len(added[3]) + 1
        /\ SubSeq(movements, 1, Len(added[3])) = added[3]
        /\ added[1] = Len(movements)
        /\ added[2] = None

\* A third movement has been added to two different ones.
C14_Witness ==
    /\ pc = "idle"
    /\ outcome = [op |-> "add_movement", how |-> "returned"]
    /\ added # <<>>
    /\ Len(movements) = 3
    /\ movements[1] # movements[2]
    /\ movements[2] # movements[3]

\* The sum of the durations of the first n movements, each computed by the
\* calculator of its kind.
RECURSIVE EstimatedTotal(_)
EstimatedTotal(n) ==
    IF n = 0
    THEN ZERO
    ELSE LET m == movements[n] IN
         RAdd(EstimatedTotal(n - 1),
              IF m.direction = "rotate"
              THEN calculate_rotational_time(m.distance, m.speed)
              ELSE calculate_linear_time(m.distance, m.speed))

\* C19: the total display_sequence prints is the sum over the sequence of
\* the rotational time of each rotate movement and the linear time of every
\* other movement; display_sequence sends the drive nothing and leaves the
\* sequence as it is.
C19_TotalIsSumAndPure ==
    /\ [](pc = "ds_print" => total_time = EstimatedTotal(Len(movements)))
    /\ [][(pc \in {"display_sequence", "ds_print"})
             => (calls' = calls /\ movements' = movements)]_vars

\* The total of a rotation and a linear movement is about to be printed.
C19_Witness ==
    /\ pc = "ds_print"
    /\ Len(movements) = 2
    /\ movements[1].direction = "rotate"
    /\ movements[2].direction = "forward"
    /\ total_time = RAdd(calculate_rotational_time(<<-90, 1>>, Rat(1, 10)),
                         calculate_linear_time(<<12, 1>>, Rat(1, 1)))

-----------------------------------------------------------------------------
\* The calculators.

InSpeedRange(s) == RLe(Rat(1, 10), s) /\ RLe(s, ONE)
Clamp(s, lo, hi) == IF RLt(s, lo) THEN lo ELSE IF RLt(hi, s) THEN hi ELSE s
Least(a, b) == IF RLe(a, b) THEN a ELSE b

\* The reference formulas.
LinearTimeFormula(d, s) ==
    Least(RMul(RDiv(RMul(d, Rat(254, 10000)),
                    RMul(Clamp(s, Rat(1, 10), ONE), ONE)),
               Rat(12, 10)),
          Rat(60, 1))
RotationalTimeFormula(a, s) ==
    Least(RMul(RDiv(RAbs(a), RMul(Clamp(s, Rat(1, 10), ONE), Rat(360, 1))),
               Rat(12, 10)),
          Rat(60, 1))

LinearReturned == calc.fn = "calculate_linear_time" /\ calc.out # None
RotationalReturned == calc.fn = "calculate_rotational_time" /\ calc.out # None

\* C15: for a speed factor in [0.1, 1.0] and a distance > 0, the linear time
\* is at most 60 s, no larger speed factor of the range gives a longer time
\* and no larger distance gives a shorter one.
C15_LinearTimeMonotoneAndCapped ==
    (LinearReturned /\ InSpeedRange(calc.s) /\ RLt(ZERO, calc.x)) =>
        /\ RLe(calc.out, Rat(60, 1))
        /\ \A s2 \in SpeedFactorGrid :
              (InSpeedRange(s2) /\ RLe(calc.s, s2))
                  => RLe(calculate_linear_time(calc.x, s2), calc.out)
        /\ \A d2 \in MagnitudeGrid :
              RLe(calc.x, d2)
                  => RLe(calc.out, calculate_linear_time(d2, calc.s))

\* A distance long enough for the clamp at the lowest speed of the range.
C15_Witness ==
    /\ LinearReturned
    /\ calc.x = <<197, 1>>
    /\ calc.s = <<1, 10>>
    /\ calc.out = Rat(60, 1)
    /\ RLt(calculate_linear_time(<<196, 1>>, <<1, 10>>), calc.out)
    /\ RLt(calculate_linear_time(<<197, 1>>, <<3, 10>>), calc.out)

\* C16: on the whole grid, speed factors outside [0.1, 1.0] included, each
\* calculator returns the value of its reference formula; linear time of
\* 12 in at speed 1.0 is 0.36576 s and rotational time of 90 degrees at
\* speed 0.5 is 0.6 s.
C16_MatchesReferenceFormula ==
    /\ LinearReturned => calc.out = LinearTimeFormula(calc.x, calc.s)
    /\ RotationalReturned => calc.out = RotationalTimeFormula(calc.x, calc.s)
    /\ (LinearReturned /\ calc.x = <<12, 1>> /\ calc.s = ONE)
           => calc.out = Rat(36576, 100000)
    /\ (RotationalReturned /\ calc.x = <<90, 1>> /\ calc.s = <<1, 2>>)
           => calc.out = Rat(6, 10)

\* The linear time of 12 in at speed 1.0 has been returned.
C16_Witness ==
    /\ LinearReturned
    /\ calc.x = <<12, 1>>
    /\ calc.s = ONE
    /\ calc.out = Rat(36576, 100000)

\* C17: whatever the distance and the speed factor, the linear time
\* returned is not negative.
C17_LinearTimeNonNegative ==
    LinearReturned => RLe(ZERO, calc.out)

\* C18: the rotational time of an angle other than 0 is that of the
\* opposite angle, and drive.rotate receives the signed angle of the
\* movement, with the duration of its absolute value.
C18_RotationalTimeSignIndependent ==
    /\ (RotationalReturned /\ calc.x # ZERO)
           => calc.out = calculate_rotational_time(<<-calc.x[1], calc.x[2]>>,
                                                   calc.s)
    /\ (calc.fn = "rotate" /\ calc.sent # <<>> /\ calc.x # ZERO)
           => /\ calc.sent[1].cmd = "rotate"
              /\ calc.sent[1].angle = calc.x
              /\ calc.sent[1].time_to_take
                     = calculate_rotational_time(RAbs(calc.x), calc.s)

\* A rotation by -90 degrees has been sent to the drive.
C18_Witness ==
    /\ calc.fn = "rotate"
    /\ calc.sent # <<>>
    /\ calc.x = <<-90, 1>>
    /\ calc.s = <<1, 2>>
    /\ calc.sent[1].angle = <<-90, 1>>
    /\ calc.sent[1].time_to_take = Rat(6, 10)

-----------------------------------------------------------------------------
\* C20: after a key other than a single space, run goes on to its end by
\* its own steps: whenever it is in the waiting loop that follows the key,
\* a step of the program that leaves the state it is in is possible, so
\* that no interrupt is needed to get out of the loop.
C20_NonSpaceKeyExits ==
    pc = "run_spin" => ENABLED <<run_spin>>_vars

-----------------------------------------------------------------------------
\* run from its try block to its end.

\* The call of run the caller made is over.
RunEnded == pc = "idle" /\ outcome.op = "run" /\ outcome.how # "running"

\* C21: when run is over and nothing was raised outside its try block (the
\* user answered no, or the last interrupt or error came while run was
\* waiting for input or executing the sequence), the last call the drive
\* received is stop() and run has returned to its caller with no exception.
C21_RunEndsStoppedAndReturns ==
    (RunEnded /\ raised.at \in {"", "waiting", "executing"}) =>
        /\ calls # <<>>
        /\ Last(calls) = StopCall
        /\ outcome.how = "returned"
        /\ exc = "none"

\* run is over after an interrupt that came while a movement was with the
\* drive.
C21_Witness ==
    /\ RunEnded
    /\ raised = [at |-> "executing", e |-> "KeyboardInterrupt"]
    /\ Len(calls) = 2
    /\ calls[1].cmd = "rotate"
    /\ calls[2] = StopCall
    /\ outcome.how = "returned"

\* run is in progress.
InRun == outcome.op = "run" /\ outcome.how = "running"
\* Statements of build_sequence and of the add_movement it calls.
BuildPcs == {"build_sequence", "get_direction", "get_speed", "get_distance",
             "add_movement", "bs_ask"}

\* C22: once run has left build_sequence, the sequence holds at least one
\* movement, so that run does not take its 'no movements' exit and no
\* execute_sequence it calls prints 'no movements'; every execute_sequence of
\* run is called from its try block, after the building; and from then on
\* run never changes the sequence and never goes back to building.
C22_RunExecutesBuiltSequenceOnly ==
    /\ []((InRun /\ pc \notin BuildPcs) =>
             /\ movements # <<>>
             /\ message # "no_movements"
             /\ (pc \in ExecPcs => InRunTry))
    /\ [][(InRun /\ pc \notin BuildPcs)
             => (movements' = movements /\ pc' \notin BuildPcs)]_vars

\* run executes its sequence of two movements for the second time.
C22_Witness ==
    /\ InRun
    /\ pc = "drive_call"
    /\ prev.valid
    /\ sequence_executed
    /\ Len(movements) = 2
    /\ dispatched = <<1, 2>>

====
